---- MODULE Spec2Model ----
(***************************************************************************)
(* The cache engine of poc/async_ver/pyredis_async.py (CacheEngine: a dict *)
(* plus a heapq of (expire_at, key) records, one asyncio lock) and of      *)
(* poc/simple_ver/pyredis_lite.py (PyRedisLite: a dict plus a dict of      *)
(* expiry times, one threading lock).                                      *)
(*                                                                         *)
(* Time is counted in ticks, TicksPerSec ticks to the second, so that the  *)
(* truncation int(expire_at - time.time()) is a real division.  Every      *)
(* engine method runs its body under the engine lock without an inner      *)
(* suspension point, so each call is one atomic action.  A run is of one   *)
(* implementation: impl is chosen in Init and never changes.               *)
(*                                                                         *)
(* Values are sequences of characters, so that int(value) and str(n) are   *)
(* computed and not assumed.                                               *)
(***************************************************************************)
EXTENDS Integers, Sequences, FiniteSets, TLC

VARIABLES
    impl,          \* "async" (CacheEngine) or "lite" (PyRedisLite)
    now,           \* time.time(), in ticks
    data,          \* CacheEngine._data / PyRedisLite.data : key -> value
    expire_heap,   \* CacheEngine._expire_heap : list of <<expire_at, key>>
    expirations,   \* PyRedisLite.expirations : key -> expiry time
    taskWake,      \* the time the background task sleeps until; Runnable once
                   \* that time has come
    last,          \* the call that ran last, with what it returned, when it
                   \* was a call on the key watch or a sweep, while now is
                   \* the time of the call
    prev,          \* <<op, integer returned>> of the call that ran before
                   \* it, when the properties speak of what follows that op
    recent,        \* the same of the call that ran last, kept as time passes
    track,         \* what the run keeps of its past: "calls" (last, prev,
                   \* recent), "sets" (last, lastSet), "dels" (last, delClean)
                   \* or "sweeps" (last, lastSet, over the longer time Late)
    watch,         \* the key whose history lastSet and delClean follow
    lastSet,       \* the latest set of watch, while no later call rewrote the key
    delClean,      \* "deleted": delete(watch) was the last call to write the
                   \* key; "set": only sets without TTL followed it; else "no"
    restored,      \* lastSet describes an entry that load put into the store
    request,       \* the line handle_client read last, split into its tokens:
                   \* <<>> before the first line, else <<parts>>
    disk,          \* the file dump.rdb: <<>> when there is none, else
                   \* <<the pickles written to it>>
    tmp,           \* the file dump.rdb.tmp, in the same form
    savePc,        \* the line save has reached: "idle" when no save runs
    saved,         \* the store the last completed save wrote: <<>> or
                   \* <<data, expire_heap>>
    savedSet,      \* lastSet as it was when that save ran
    periodic,      \* the line the save called by periodic_save has reached
    lock,          \* the engine lock: Free or the task that holds it
    tasks,         \* the concurrent incr calls: task -> its position, the
                   \* value it read and the value it returned
    conn           \* the connection of one client: the commands it has sent,
                   \* the replies written to it, whether a chunk read is yet
                   \* to be answered, whether the connection is open

\* What the methods other than save and load leave alone.
snapshot == <<disk, tmp, savePc, saved, savedSet, periodic>>

\* What the calls that run as one step leave alone.
clients == <<lock, tasks, conn>>

vars == <<impl, now, data, expire_heap, expirations, taskWake, last, prev,
          recent, track, watch, lastSet, delClean, restored, request, disk,
          tmp, savePc, saved, savedSet, periodic, lock, tasks, conn>>

----------------------------------------------------------------------------
(* Bounds of the model *)

TicksPerSec == 2
MaxTime == 4
MaxHeap == 2
MaxInt == 1

Keys == {"a", "b"}

\* Python orders the keys as strings: "a" < "b".
KeyRank(k) == IF k = "a" THEN 1 ELSE 2

\* The values a client sets: a word, and an integer written with a leading
\* zero (int() accepts it, str() never produces it).
Values == { <<"x">>, <<"0", "0">> }

\* Optional[int]: <<>> is None, <<n>> is the integer n.
None == <<>>
Expires == { None, <<0>>, <<1>>, <<2>> }

----------------------------------------------------------------------------
(* int(value) and str(n) *)

Digits == <<"0", "1", "2", "3", "4", "5", "6", "7", "8", "9">>

IsDigit(c) == \E i \in 1..10 : Digits[i] = c

DigitVal(c) == (CHOOSE i \in 1..10 : Digits[i] = c) - 1

AllDigits(s) == Len(s) > 0 /\ \A i \in 1..Len(s) : IsDigit(s[i])

IsSign(c) == c = "-" \/ c = "+"

\* int(s) succeeds: an optional sign, then one digit or more.
IsIntStr(s) ==
    /\ Len(s) > 0
    /\ IF IsSign(s[1]) THEN AllDigits(Tail(s)) ELSE AllDigits(s)

RECURSIVE DigitsToNat(_)
DigitsToNat(s) ==
    IF Len(s) = 0 THEN 0
    ELSE 10 * DigitsToNat(SubSeq(s, 1, Len(s) - 1)) + DigitVal(s[Len(s)])

ParseInt(s) ==
    IF s[1] = "-" THEN 0 - DigitsToNat(Tail(s))
    ELSE IF s[1] = "+" THEN DigitsToNat(Tail(s))
    ELSE DigitsToNat(s)

RECURSIVE NatToDigits(_)
NatToDigits(n) ==
    IF n < 10 THEN <<Digits[n + 1]>>
    ELSE NatToDigits(n \div 10) \o <<Digits[(n % 10) + 1]>>

IntToStr(n) == IF n < 0 THEN <<"-">> \o NatToDigits(0 - n) ELSE NatToDigits(n)

\* int(x) of a float: truncation toward zero; x is d ticks.
TruncSeconds(d) ==
    IF d >= 0 THEN d \div TicksPerSec ELSE 0 - ((0 - d) \div TicksPerSec)

----------------------------------------------------------------------------
(* dict operations *)

DictSet(d, k, v) == [x \in (DOMAIN d) \cup {k} |-> IF x = k THEN v ELSE d[x]]

DictDel(d, k) == [x \in (DOMAIN d) \ {k} |-> d[x]]

EmptyDict == [x \in {} |-> 0]

----------------------------------------------------------------------------
(* heapq on a list of <<expire_at, key>> tuples; positions are 0-based as in *)
(* heapq, the element at position p is h[p + 1].                             *)

TupleLt(x, y) == x[1] < y[1] \/ (x[1] = y[1] /\ KeyRank(x[2]) < KeyRank(y[2]))

RECURSIVE SiftDown(_, _, _, _)
SiftDown(h, startpos, pos, newitem) ==
    IF pos > startpos /\ TupleLt(newitem, h[((pos - 1) \div 2) + 1])
    THEN SiftDown([h EXCEPT ![pos + 1] = h[((pos - 1) \div 2) + 1]],
                  startpos, (pos - 1) \div 2, newitem)
    ELSE [h EXCEPT ![pos + 1] = newitem]

RECURSIVE SiftUpLoop(_, _, _, _)
SiftUpLoop(h, startpos, pos, newitem) ==
    LET endpos == Len(h)
        left == 2 * pos + 1
        right == left + 1
        childpos == IF right < endpos /\ ~TupleLt(h[left + 1], h[right + 1])
                    THEN right ELSE left
    IN  IF left < endpos
        THEN SiftUpLoop([h EXCEPT ![pos + 1] = h[childpos + 1]],
                        startpos, childpos, newitem)
        ELSE SiftDown([h EXCEPT ![pos + 1] = newitem], startpos, pos, newitem)

SiftUp(h, pos) == SiftUpLoop(h, pos, pos, h[pos + 1])

\* heappush without the sift: list.append.
HeapPushAppend(h, item) == Append(h, item)

HeapPush(h, item) == SiftDown(Append(h, item), 0, Len(h), item)

\* heappop returns the item at position 0; this is the list it leaves.
HeapPopRest(h) ==
    LET lastelt == h[Len(h)]
        rest == SubSeq(h, 1, Len(h) - 1)
    IN  IF Len(rest) > 0 THEN SiftUp([rest EXCEPT ![1] = lastelt], 0) ELSE rest

RECURSIVE HeapifyFrom(_, _)
HeapifyFrom(h, i) == IF i < 0 THEN h ELSE HeapifyFrom(SiftUp(h, i), i - 1)

Heapify(h) == HeapifyFrom(h, (Len(h) \div 2) - 1)

----------------------------------------------------------------------------
(* What a call leaves behind for the properties to read *)

\* op: the method; key: its key argument ("" when it has none); found: a value
\* was returned; val: the value or reply string; num: the integer returned;
\* err: the call raised.
Call(op, k, found, val, num, err) ==
    [op |-> op, key |-> k, found |-> found, val |-> val, num |-> num, err |-> err]

\* What Record adds: had: the key was in the store before the call; pre: the
\* value it had; same: the call left the data and the expiration records as
\* they were.
Noted(c, had, pre, same) ==
    [op |-> c.op, key |-> c.key, found |-> c.found, val |-> c.val, num |-> c.num,
     err |-> c.err, had |-> had, pre |-> pre, same |-> same]

NoCall == Noted(Call("init", "", FALSE, <<>>, 0, FALSE), FALSE, <<>>, TRUE)

OtherCall == Noted(Call("other", "", FALSE, <<>>, 0, FALSE), FALSE, <<>>, TRUE)

\* The latest set of a key: its value, its ttl argument (None or <<seconds>>),
\* the time of the call, and the ttl argument of the set it replaced (None when
\* that set gave none or there was no such set).
SetRec(v, e, t, pe) ==
    [has |-> TRUE, val |-> v, ex |-> e, at |-> t, pex |-> pe]

NoSet == [has |-> FALSE, val |-> <<>>, ex |-> None, at |-> 0, pex |-> None]

\* The runs that keep the last set of the watched key.
SetTracks == {"sets", "sweeps"}

NoteSet(k, v, e) ==
    IF k # watch \/ track \notin SetTracks THEN lastSet
    ELSE SetRec(v, e, now, IF lastSet.has THEN lastSet.ex ELSE None)

Forget(k) == IF k = watch /\ track \in SetTracks THEN NoSet ELSE lastSet

\* A call that writes the key k: lastSet no longer describes a loaded entry.
Unrestored(k) == IF k = watch THEN FALSE ELSE restored

\* delete(k) was called.
NoteDelete(k) == IF k = watch /\ track = "dels" THEN "deleted" ELSE delClean

\* set(k, ..., e) was called.
NoteTtl(k, e) ==
    IF k # watch \/ track # "dels" THEN delClean
    ELSE IF e = None /\ delClean \in {"deleted", "set"} THEN "set"
    ELSE "no"

\* incr(k) or decr(k) was called.
NoteAdd(k) == IF k = watch THEN "no" ELSE delClean

\* The calls that the properties follow into the next call.
Followed == {"delete", "incr"}

NoPrev == <<"", 0>>

\* A call on another key than watch is kept as "other".
Record(c) ==
    /\ last' = IF c.key = watch
               THEN Noted(c, watch \in DOMAIN data,
                          IF watch \in DOMAIN data THEN data[watch] ELSE <<>>,
                          /\ data' = data
                          /\ expire_heap' = expire_heap
                          /\ expirations' = expirations)
               ELSE IF c.key = "" THEN Noted(c, FALSE, <<>>, TRUE)
               ELSE OtherCall
    /\ prev' = recent
    /\ recent' = IF track = "calls" /\ c.key = watch /\ c.op \in Followed /\ ~c.err
                 THEN <<c.op, c.num>> ELSE NoPrev

----------------------------------------------------------------------------
(* Files, the lock and the tasks *)

\* os.path.exists(filename) is false.
NoFile == <<>>

\* asyncio.Lock() / threading.Lock() as created: not held.
Free == 0

MaxTasks == 2

Tasks == 1..MaxTasks

\* No incr call has been started.
NoTasks == [i \in Tasks |-> [pc |-> "start", cur |-> 0, ret |-> 0]]

\* The connection as accepted: nothing sent, nothing written.
NoConn == [sent |-> 0, replies |-> 0, pending |-> FALSE, open |-> TRUE]

\* The commands a client sends in a run.
MaxSent == 3

----------------------------------------------------------------------------
(* CacheEngine *)

\* The background task is not asleep: asyncio.sleep / time.sleep has returned,
\* or the task was just created.  (Times asleep are later than now >= 0.)
Runnable == 0

\* The runs that follow the background task last three seconds, the longest
\* TTL they give.
Late == 3 * TicksPerSec

\* The time at which a run ends.
Horizon == IF track = "sweeps" THEN Late ELSE MaxTime

\* The model follows an expiry time up to the end of the run: no TTL is given
\* that ends later.
InTime(seconds) == now + seconds * TicksPerSec <= Horizon

\* `if expire:` -- None and 0 are both falsy.
Truthy(e) == e # None /\ e[1] # 0

\* _remove_expired_keys: <<data, heap>> after the loop, at time t.
RECURSIVE RemoveExpired(_, _, _)
RemoveExpired(d, h, t) ==
    IF Len(h) > 0 /\ h[1][1] < t
    THEN LET key == h[1][2]
         IN  RemoveExpired(IF key \in DOMAIN d THEN DictDel(d, key) ELSE d,
                           HeapPopRest(h), t)
    ELSE <<d, h>>

\* The first record of the key in list order, as the for loop of ttl finds it.
FirstRecord(h, k) == h[CHOOSE i \in 1..Len(h) :
                          /\ h[i][2] = k
                          /\ \A j \in 1..(i - 1) : h[j][2] # k]

HasRecord(h, k) == \E i \in 1..Len(h) : h[i][2] = k

\* [(ts, k) for ts, k in heap if k != key]
RECURSIVE WithoutKey(_, _)
WithoutKey(h, k) ==
    IF Len(h) = 0 THEN <<>>
    ELSE IF h[1][2] = k THEN WithoutKey(Tail(h), k)
    ELSE <<h[1]>> \o WithoutKey(Tail(h), k)

EngineSet(k, v, e) ==
    /\ impl = "async"
    /\ UNCHANGED <<impl, track, watch, request, snapshot, clients, now,
                   expirations, taskWake>>
    /\ Truthy(e) => Len(expire_heap) < MaxHeap /\ InTime(e[1])
    /\ data' = DictSet(data, k, v)
    /\ expire_heap' = IF Truthy(e)
                      THEN HeapPush(expire_heap, <<now + e[1] * TicksPerSec, k>>)
                      ELSE expire_heap
    /\ Record(Call("set", k, FALSE, <<>>, 0, FALSE))
    /\ lastSet' = NoteSet(k, v, e)
    /\ restored' = Unrestored(k)
    /\ delClean' = NoteTtl(k, e)

EngineGet(k) ==
    /\ impl = "async"
    /\ UNCHANGED <<impl, track, watch, request, snapshot, clients, now,
                   expirations, taskWake, lastSet, delClean, restored>>
    /\ LET r == RemoveExpired(data, expire_heap, now)
       IN  /\ data' = r[1]
           /\ expire_heap' = r[2]
           /\ Record(IF k \in DOMAIN r[1]
                     THEN Call("get", k, TRUE, r[1][k], 0, FALSE)
                     ELSE Call("get", k, FALSE, <<>>, 0, FALSE))

\* delete without `del self._data[key]`.
EngineDeleteKeepsKey(k) ==
    /\ impl = "async"
    /\ UNCHANGED <<impl, track, watch, request, snapshot, clients, now,
                   expirations, taskWake>>
    /\ IF k \in DOMAIN data
       THEN /\ data' = data
            /\ expire_heap' = Heapify(WithoutKey(expire_heap, k))
            /\ Record(Call("delete", k, FALSE, <<>>, 1, FALSE))
       ELSE /\ UNCHANGED <<data, expire_heap>>
            /\ Record(Call("delete", k, FALSE, <<>>, 0, FALSE))
    /\ lastSet' = Forget(k)
    /\ restored' = Unrestored(k)
    /\ delClean' = NoteDelete(k)

EngineDelete(k) ==
    /\ impl = "async"
    /\ UNCHANGED <<impl, track, watch, request, snapshot, clients, now,
                   expirations, taskWake>>
    /\ IF k \in DOMAIN data
       THEN /\ data' = DictDel(data, k)
            /\ expire_heap' = Heapify(WithoutKey(expire_heap, k))
            /\ Record(Call("delete", k, FALSE, <<>>, 1, FALSE))
       ELSE /\ UNCHANGED <<data, expire_heap>>
            /\ Record(Call("delete", k, FALSE, <<>>, 0, FALSE))
    /\ lastSet' = Forget(k)
    /\ restored' = Unrestored(k)
    /\ delClean' = NoteDelete(k)

EngineTtl(k) ==
    /\ impl = "async"
    /\ UNCHANGED <<impl, track, watch, request, snapshot, clients, now, data,
                   expire_heap, expirations, taskWake, lastSet, delClean,
                   restored>>
    /\ Record(IF k \notin DOMAIN data
              THEN Call("ttl", k, FALSE, <<>>, -2, FALSE)
              ELSE IF HasRecord(expire_heap, k)
              THEN Call("ttl", k, TRUE, <<>>,
                        TruncSeconds(FirstRecord(expire_heap, k)[1] - now), FALSE)
              ELSE Call("ttl", k, TRUE, <<>>, -1, FALSE))

\* incr and decr that purge the expiration records of the key as delete does.
EngineAddDropsRecords(op, k, step) ==
    /\ impl = "async"
    /\ UNCHANGED <<impl, track, watch, request, snapshot, clients, now,
                   expirations, taskWake>>
    /\ expire_heap' = Heapify(WithoutKey(expire_heap, k))
    /\ IF k \in DOMAIN data /\ ~IsIntStr(data[k])
       THEN /\ UNCHANGED data
            /\ Record(Call(op, k, k \in DOMAIN data, <<>>, 0, TRUE))
       ELSE LET current_value ==
                    (IF k \in DOMAIN data THEN ParseInt(data[k]) ELSE 0) + step
            IN  /\ current_value \in (0 - MaxInt)..MaxInt
                /\ data' = DictSet(data, k, IntToStr(current_value))
                /\ Record(Call(op, k, k \in DOMAIN data, <<>>, current_value, FALSE))
    /\ lastSet' = Forget(k)
    /\ restored' = Unrestored(k)
    /\ delClean' = NoteAdd(k)

\* incr and decr that store "0" before int() raises.
EngineAddClobbers(op, k, step) ==
    /\ impl = "async"
    /\ UNCHANGED <<impl, track, watch, request, snapshot, clients, now,
                   expire_heap, expirations, taskWake>>
    /\ IF k \in DOMAIN data /\ ~IsIntStr(data[k])
       THEN /\ data' = DictSet(data, k, <<"0">>)
            /\ Record(Call(op, k, k \in DOMAIN data, <<>>, 0, TRUE))
       ELSE LET current_value ==
                    (IF k \in DOMAIN data THEN ParseInt(data[k]) ELSE 0) + step
            IN  /\ current_value \in (0 - MaxInt)..MaxInt
                /\ data' = DictSet(data, k, IntToStr(current_value))
                /\ Record(Call(op, k, k \in DOMAIN data, <<>>, current_value, FALSE))
    /\ lastSet' = Forget(k)
    /\ restored' = Unrestored(k)
    /\ delClean' = NoteAdd(k)

\* incr (step = 1) and decr (step = -1): int(self._data.get(key, 0)) + step.
EngineAdd(op, k, step) ==
    /\ impl = "async"
    /\ UNCHANGED <<impl, track, watch, request, snapshot, clients, now,
                   expire_heap, expirations, taskWake>>
    /\ IF k \in DOMAIN data /\ ~IsIntStr(data[k])
       THEN /\ UNCHANGED data
            /\ Record(Call(op, k, k \in DOMAIN data, <<>>, 0, TRUE))
       ELSE LET current_value ==
                    (IF k \in DOMAIN data THEN ParseInt(data[k]) ELSE 0) + step
            IN  /\ current_value \in (0 - MaxInt)..MaxInt
                /\ data' = DictSet(data, k, IntToStr(current_value))
                /\ Record(Call(op, k, k \in DOMAIN data, <<>>, current_value, FALSE))
    /\ lastSet' = Forget(k)
    /\ restored' = Unrestored(k)
    /\ delClean' = NoteAdd(k)

EngineIncr(k) == EngineAdd("incr", k, 1)

\* decr without `current_value -= 1`.
EngineDecrKeepsValue(k) == EngineAdd("decr", k, 0)

EngineDecr(k) == EngineAdd("decr", k, -1)

\* A turn of the loop without `self._remove_expired_keys()`.
ProactiveExpireNoSweep ==
    /\ impl = "async"
    /\ UNCHANGED <<impl, track, watch, request, snapshot, clients, now,
                   expirations, lastSet, delClean, restored>>
    /\ taskWake = Runnable
    /\ UNCHANGED <<data, expire_heap>>
    /\ taskWake' = IF Len(expire_heap) > 0
                   THEN (IF expire_heap[1][1] - now > 0
                         THEN expire_heap[1][1] ELSE Runnable)
                   ELSE now + TicksPerSec
    /\ Record(Call("sweep", "", FALSE, <<>>, 0, FALSE))

\* One turn of the loop of _proactive_expire: the sweep under the lock, then
\* the choice of the time to sleep until.
ProactiveExpire ==
    /\ impl = "async"
    /\ UNCHANGED <<impl, track, watch, request, snapshot, clients, now,
                   expirations, lastSet, delClean, restored>>
    /\ taskWake = Runnable
    /\ LET r == RemoveExpired(data, expire_heap, now)
       IN  /\ data' = r[1]
           /\ expire_heap' = r[2]
           /\ taskWake' = IF Len(r[2]) > 0
                          THEN (IF r[2][1][1] - now > 0 THEN r[2][1][1] ELSE Runnable)
                          ELSE now + TicksPerSec
    /\ Record(Call("sweep", "", FALSE, <<>>, 0, FALSE))

\* time.time() moves on; a sleep that has lasted its time ends.
Tick ==
    /\ now < Horizon
    /\ now' = now + 1
    /\ taskWake' = IF taskWake <= now + 1 THEN Runnable ELSE taskWake
    /\ last' = NoCall
    /\ prev' = NoPrev
    /\ UNCHANGED <<impl, track, watch, request, snapshot, clients, data,
                   expire_heap, expirations, recent, lastSet, delClean,
                   restored>>

----------------------------------------------------------------------------
(* PyRedisLite.  handle_client passes the EX token as the string it read, so *)
(* ex is None or a string: `if ex:` is true of every token, "0" included.    *)

ExTokens == { None, <<"0">>, <<"1">>, <<"2">>, <<"x">> }

LiteExpired(k) == k \in DOMAIN expirations /\ now > expirations[k]

\* The ttl argument of the call as lastSet keeps it.
LiteTtlArg(ex) == IF ex = None THEN None ELSE <<ParseInt(ex)>>

LiteSet(k, v, ex) ==
    /\ impl = "lite"
    /\ UNCHANGED <<impl, track, watch, request, snapshot, clients, now,
                   expire_heap, taskWake>>
    /\ data' = DictSet(data, k, v)
    /\ IF ex = None
       THEN /\ UNCHANGED expirations
            /\ Record(Call("set", k, TRUE, <<"O", "K">>, 0, FALSE))
            /\ lastSet' = NoteSet(k, v, None)
            /\ restored' = Unrestored(k)
       ELSE IF IsIntStr(ex)
       THEN /\ InTime(ParseInt(ex))
            /\ expirations' = DictSet(expirations, k, now + ParseInt(ex) * TicksPerSec)
            /\ Record(Call("set", k, TRUE, <<"O", "K">>, 0, FALSE))
            /\ lastSet' = NoteSet(k, v, LiteTtlArg(ex))
            /\ restored' = Unrestored(k)
       ELSE \* int(ex) raises ValueError after the value was stored
            /\ UNCHANGED expirations
            /\ Record(Call("set", k, FALSE, <<>>, 0, TRUE))
            /\ lastSet' = Forget(k)
            /\ restored' = Unrestored(k)
    /\ delClean' = NoteTtl(k, ex)

LiteGet(k) ==
    /\ impl = "lite"
    /\ UNCHANGED <<impl, track, watch, request, snapshot, clients, now,
                   expire_heap, taskWake, lastSet, delClean, restored>>
    /\ IF k \in DOMAIN data
       THEN IF LiteExpired(k)
            THEN /\ data' = DictDel(data, k)
                 /\ expirations' = DictDel(expirations, k)
                 /\ Record(Call("get", k, FALSE, <<>>, 0, FALSE))
            ELSE /\ UNCHANGED <<data, expirations>>
                 /\ Record(Call("get", k, TRUE, data[k], 0, FALSE))
       ELSE /\ UNCHANGED <<data, expirations>>
            /\ Record(Call("get", k, FALSE, <<>>, 0, FALSE))

\* delete without `del self.expirations[key]`.
LiteDeleteKeepsExpiry(k) ==
    /\ impl = "lite"
    /\ UNCHANGED <<impl, track, watch, request, snapshot, clients, now,
                   expire_heap, taskWake>>
    /\ IF k \in DOMAIN data
       THEN /\ data' = DictDel(data, k)
            /\ UNCHANGED expirations
            /\ Record(Call("delete", k, FALSE, <<"1">>, 1, FALSE))
       ELSE /\ UNCHANGED <<data, expirations>>
            /\ Record(Call("delete", k, FALSE, <<"0">>, 0, FALSE))
    /\ lastSet' = Forget(k)
    /\ restored' = Unrestored(k)
    /\ delClean' = NoteDelete(k)

LiteDelete(k) ==
    /\ impl = "lite"
    /\ UNCHANGED <<impl, track, watch, request, snapshot, clients, now,
                   expire_heap, taskWake>>
    /\ IF k \in DOMAIN data
       THEN /\ data' = DictDel(data, k)
            /\ expirations' = DictDel(expirations, k)
            /\ Record(Call("delete", k, FALSE, <<"1">>, 1, FALSE))
       ELSE /\ UNCHANGED <<data, expirations>>
            /\ Record(Call("delete", k, FALSE, <<"0">>, 0, FALSE))
    /\ lastSet' = Forget(k)
    /\ restored' = Unrestored(k)
    /\ delClean' = NoteDelete(k)

\* exists that answers "0" for an expired key and removes nothing.
LiteExistsKeepsKey(k) ==
    /\ impl = "lite"
    /\ UNCHANGED <<impl, track, watch, request, snapshot, clients, now,
                   expire_heap, taskWake, lastSet, delClean, restored>>
    /\ UNCHANGED <<data, expirations>>
    /\ IF k \in DOMAIN data /\ ~LiteExpired(k)
       THEN Record(Call("exists", k, TRUE, <<"1">>, 1, FALSE))
       ELSE Record(Call("exists", k, FALSE, <<"0">>, 0, FALSE))

LiteExists(k) ==
    /\ impl = "lite"
    /\ UNCHANGED <<impl, track, watch, request, snapshot, clients, now,
                   expire_heap, taskWake, lastSet, delClean, restored>>
    /\ IF k \in DOMAIN data
       THEN IF LiteExpired(k)
            THEN /\ data' = DictDel(data, k)
                 /\ expirations' = DictDel(expirations, k)
                 /\ Record(Call("exists", k, FALSE, <<"0">>, 0, FALSE))
            ELSE /\ UNCHANGED <<data, expirations>>
                 /\ Record(Call("exists", k, TRUE, <<"1">>, 1, FALSE))
       ELSE /\ UNCHANGED <<data, expirations>>
            /\ Record(Call("exists", k, FALSE, <<"0">>, 0, FALSE))

\* ttl returns the string of the number; num is the number, val the string.
LiteTtl(k) ==
    /\ impl = "lite"
    /\ UNCHANGED <<impl, track, watch, request, snapshot, clients, now,
                   expire_heap, taskWake, lastSet, delClean, restored>>
    /\ IF k \in DOMAIN data
       THEN IF k \in DOMAIN expirations
            THEN IF now > expirations[k]
                 THEN /\ data' = DictDel(data, k)
                      /\ expirations' = DictDel(expirations, k)
                      /\ Record(Call("ttl", k, FALSE, IntToStr(-2), -2, FALSE))
                 ELSE /\ UNCHANGED <<data, expirations>>
                      /\ Record(Call("ttl", k, TRUE,
                                     IntToStr(TruncSeconds(expirations[k] - now)),
                                     TruncSeconds(expirations[k] - now), FALSE))
            ELSE /\ UNCHANGED <<data, expirations>>
                 /\ Record(Call("ttl", k, TRUE, IntToStr(-1), -1, FALSE))
       ELSE /\ UNCHANGED <<data, expirations>>
            /\ Record(Call("ttl", k, FALSE, IntToStr(-2), -2, FALSE))

\* incr returns the new value as a string, or an error string (it does not raise).
LiteIncr(k) ==
    /\ impl = "lite"
    /\ UNCHANGED <<impl, track, watch, request, snapshot, clients, now,
                   expire_heap, expirations, taskWake>>
    /\ IF k \in DOMAIN data
       THEN IF IsIntStr(data[k])
            THEN /\ ParseInt(data[k]) + 1 \in (0 - MaxInt)..MaxInt
                 /\ data' = DictSet(data, k, IntToStr(ParseInt(data[k]) + 1))
                 /\ Record(Call("incr", k, TRUE, IntToStr(ParseInt(data[k]) + 1),
                                ParseInt(data[k]) + 1, FALSE))
            ELSE /\ UNCHANGED data
                 /\ Record(Call("incr", k, TRUE, <<"E", "R", "R", "O", "R">>, 0, TRUE))
       ELSE /\ data' = DictSet(data, k, <<"1">>)
            /\ Record(Call("incr", k, FALSE, <<"1">>, 1, FALSE))
    /\ lastSet' = Forget(k)
    /\ restored' = Unrestored(k)
    /\ delClean' = NoteAdd(k)

LiteFlushall ==
    /\ impl = "lite"
    /\ UNCHANGED <<impl, track, watch, request, snapshot, clients, now,
                   expire_heap, taskWake>>
    /\ data' = EmptyDict
    /\ expirations' = EmptyDict
    /\ Record(Call("flushall", "", TRUE, <<"O", "K">>, 0, FALSE))
    /\ lastSet' = NoSet
    /\ restored' = FALSE
    /\ delClean' = "no"

\* One turn of the loop of active_expire, then time.sleep(1).
LiteActiveExpire ==
    /\ impl = "lite"
    /\ UNCHANGED <<impl, track, watch, request, snapshot, clients, now,
                   expire_heap, lastSet, delClean, restored>>
    /\ taskWake = Runnable
    /\ LET keys_to_delete == {k \in DOMAIN expirations : now > expirations[k]}
       IN  /\ data' = [x \in (DOMAIN data) \ keys_to_delete |-> data[x]]
           /\ expirations' = [x \in (DOMAIN expirations) \ keys_to_delete |->
                                 expirations[x]]
    /\ taskWake' = now + TicksPerSec
    /\ Record(Call("sweep", "", FALSE, <<>>, 0, FALSE))

----------------------------------------------------------------------------
(* The background task alone: entries are set once, each with a TTL, and no   *)
(* get, ttl or delete is called.  The event loop (the scheduler of threads)   *)
(* has nothing else to run, so the task runs as soon as its sleep is over:    *)
(* time does not pass while the task is awake and has an entry to remove.     *)

StaleTtls == { <<1>>, <<3>> }

\* A turn of the task now would remove nothing.
NothingDue ==
    IF impl = "async"
    THEN RemoveExpired(data, expire_heap, now) = <<data, expire_heap>>
    ELSE \A k \in DOMAIN expirations : ~(now > expirations[k])

PromptTick ==
    /\ taskWake = Runnable => NothingDue
    /\ Tick

\* set(k, "x", e) of a key that is not in the store and has no record.
FirstSet(k, e) ==
    /\ k \notin DOMAIN data
    /\ ~HasRecord(expire_heap, k)
    /\ k \notin DOMAIN expirations
    /\ \/ EngineSet(k, <<"x">>, e)
       \/ LiteSet(k, <<"x">>, IntToStr(e[1]))

----------------------------------------------------------------------------
(* save and load.  pickle.dump writes a dict as the list of its items and a   *)
(* list as it is; a file is the sequence of the pickles written to it.  The   *)
(* body of save has no suspension point, so while it runs no other call of    *)
(* the engine does; time passes, and the process may end.                     *)

\* The keys of a dict in the order of KeyRank.
RECURSIVE SortedKeys(_)
SortedKeys(S) ==
    IF S = {} THEN <<>>
    ELSE LET k == CHOOSE x \in S : \A y \in S : KeyRank(x) <= KeyRank(y)
         IN  <<k>> \o SortedKeys(S \ {k})

DictItems(d) ==
    LET ks == SortedKeys(DOMAIN d)
    IN  [i \in 1..Len(ks) |-> <<ks[i], d[ks[i]]>>]

PickleDict(d) == [kind |-> "dict", items |-> DictItems(d)]

PickleList(h) == [kind |-> "list", items |-> h]

\* pickle.load of a pickled dict: the items are set one after the other.
RECURSIVE DictOfItems(_)
DictOfItems(items) ==
    IF Len(items) = 0 THEN EmptyDict
    ELSE DictSet(DictOfItems(SubSeq(items, 1, Len(items) - 1)),
                 items[Len(items)][1], items[Len(items)][2])

Unpickle(p) == IF p.kind = "dict" THEN DictOfItems(p.items) ELSE p.items

\* The file a save of the store <<d, h>> writes.
Snapshot(d, h) == <<PickleDict(d), PickleList(h)>>

\* No save runs: the lock is not held by a save.
Idle == savePc = "idle" /\ periodic = "idle"

\* What the steps of save leave alone.
engine == <<impl, track, watch, request, clients, now, data, expire_heap,
            expirations, taskWake, lastSet, delClean, restored>>

\* What save has returned or raised.
SaveCall(err) ==
    Noted(Call("save", "", FALSE, <<>>, 0, err), FALSE, <<>>, TRUE)

\* open(filename, "wb"): save without the temporary file.
SaveOpenInPlace ==
    /\ Idle
    /\ impl = "async"
    /\ disk' = <<<<>>>>
    /\ savePc' = "opened"
    /\ last' = NoCall /\ prev' = NoPrev /\ recent' = NoPrev
    /\ UNCHANGED <<engine, tmp, saved, savedSet, periodic>>

\* open(temp_filename, "wb") creates the file or empties it.
SaveOpen ==
    /\ Idle
    /\ impl = "async"
    /\ tmp' = <<<<>>>>
    /\ savePc' = "opened"
    /\ last' = NoCall /\ prev' = NoPrev /\ recent' = NoPrev
    /\ UNCHANGED <<engine, disk, saved, savedSet, periodic>>

SaveDumpData ==
    /\ savePc = "opened"
    /\ tmp' = <<Append(tmp[1], PickleDict(data))>>
    /\ savePc' = "data"
    /\ UNCHANGED <<engine, disk, saved, savedSet, periodic, last, prev, recent>>

\* pickle.dump of an empty list in place of self._expire_heap.
SaveDumpNoHeap ==
    /\ savePc = "data"
    /\ tmp' = <<Append(tmp[1], PickleList(<<>>))>>
    /\ savePc' = "heap"
    /\ UNCHANGED <<engine, disk, saved, savedSet, periodic, last, prev, recent>>

SaveDumpHeap ==
    /\ savePc = "data"
    /\ tmp' = <<Append(tmp[1], PickleList(expire_heap))>>
    /\ savePc' = "heap"
    /\ UNCHANGED <<engine, disk, saved, savedSet, periodic, last, prev, recent>>

\* The file is closed and os.replace puts it at the canonical path.
SaveReplace ==
    /\ savePc = "heap"
    /\ disk' = tmp
    /\ tmp' = NoFile
    /\ savePc' = "idle"
    /\ saved' = <<data, expire_heap>>
    /\ savedSet' = lastSet
    /\ last' = SaveCall(FALSE) /\ prev' = NoPrev /\ recent' = NoPrev
    /\ UNCHANGED <<engine, periodic>>

\* The save that periodic_save calls, line by line: the same save, on the
\* same two files.
PeriodicOpen ==
    /\ Idle
    /\ impl = "async"
    /\ tmp' = <<<<>>>>
    /\ periodic' = "opened"
    /\ last' = NoCall /\ prev' = NoPrev /\ recent' = NoPrev
    /\ UNCHANGED <<engine, disk, savePc, saved, savedSet>>

PeriodicDumpData ==
    /\ periodic = "opened"
    /\ tmp' = <<Append(tmp[1], PickleDict(data))>>
    /\ periodic' = "data"
    /\ UNCHANGED <<engine, disk, savePc, saved, savedSet, last, prev, recent>>

PeriodicDumpHeap ==
    /\ periodic = "data"
    /\ tmp' = <<Append(tmp[1], PickleList(expire_heap))>>
    /\ periodic' = "heap"
    /\ UNCHANGED <<engine, disk, savePc, saved, savedSet, last, prev, recent>>

PeriodicReplace ==
    /\ periodic = "heap"
    /\ disk' = tmp
    /\ tmp' = NoFile
    /\ periodic' = "idle"
    /\ saved' = <<data, expire_heap>>
    /\ savedSet' = lastSet
    /\ last' = SaveCall(FALSE) /\ prev' = NoPrev /\ recent' = NoPrev
    /\ UNCHANGED <<engine, savePc>>

\* A write or the replace raises: save ends, the temporary file stays.
SaveFail ==
    /\ savePc # "idle"
    /\ savePc' = "idle"
    /\ last' = SaveCall(TRUE) /\ prev' = NoPrev /\ recent' = NoPrev
    /\ UNCHANGED <<engine, disk, tmp, saved, savedSet, periodic>>

\* The process ends, at any point, and main starts again: CacheEngine().
Restart ==
    /\ impl = "async"
    /\ data' = EmptyDict
    /\ expire_heap' = <<>>
    /\ taskWake' = Runnable
    /\ savePc' = "idle"
    /\ periodic' = "idle"
    /\ lock' = Free
    /\ tasks' = NoTasks
    /\ conn' = NoConn
    /\ request' = <<>>
    /\ last' = NoCall /\ prev' = NoPrev /\ recent' = NoPrev
    /\ lastSet' = NoSet
    /\ delClean' = "no"
    /\ restored' = FALSE
    /\ UNCHANGED <<impl, track, watch, now, expirations, disk, tmp, saved,
                   savedSet>>

\* What load has returned: found: the file was there; had: the store held a
\* key or a record before the call; pre: the keys it held.
LoadCall(found, err) ==
    Noted(Call("load", "", found, <<>>, 0, err),
          data # EmptyDict \/ expire_heap # <<>>,
          SortedKeys(DOMAIN data),
          data' = data /\ expire_heap' = expire_heap)

\* The frame of load.
LoadFrame ==
    /\ delClean' = "no"
    /\ prev' = NoPrev /\ recent' = NoPrev
    /\ UNCHANGED <<impl, track, watch, request, snapshot, clients, now,
                   expirations, taskWake>>

\* load that empties the store when there is no file.
EngineLoadResets ==
    /\ Idle
    /\ impl = "async"
    /\ IF disk = NoFile
       THEN /\ data' = EmptyDict
            /\ expire_heap' = <<>>
            /\ last' = LoadCall(FALSE, FALSE)
            /\ lastSet' = NoSet
            /\ restored' = FALSE
       ELSE /\ data' = Unpickle(disk[1][1])
            /\ expire_heap' = Unpickle(disk[1][2])
            /\ last' = LoadCall(TRUE, FALSE)
            /\ lastSet' = IF track \in SetTracks THEN savedSet ELSE lastSet
            /\ restored' = TRUE
    /\ LoadFrame

\* load that updates the store with the snapshot: self._data.update(...),
\* self._expire_heap.extend(...).
EngineLoadMerges ==
    /\ Idle
    /\ impl = "async"
    /\ IF disk = NoFile
       THEN /\ UNCHANGED <<data, expire_heap, lastSet, restored>>
            /\ last' = LoadCall(FALSE, FALSE)
       ELSE /\ data' = [k \in DOMAIN data \cup DOMAIN Unpickle(disk[1][1]) |->
                           IF k \in DOMAIN Unpickle(disk[1][1])
                           THEN Unpickle(disk[1][1])[k] ELSE data[k]]
            /\ expire_heap' = expire_heap \o Unpickle(disk[1][2])
            /\ last' = LoadCall(TRUE, FALSE)
            /\ lastSet' = IF track \in SetTracks THEN savedSet ELSE lastSet
            /\ restored' = TRUE
    /\ LoadFrame

\* load: nothing happens when the file is not there; else the two pickles are
\* read one after the other, each assigned as it is read, and a pickle that
\* is missing raises EOFError.
EngineLoad ==
    /\ Idle
    /\ impl = "async"
    /\ IF disk = NoFile
       THEN /\ UNCHANGED <<data, expire_heap, lastSet, restored>>
            /\ last' = LoadCall(FALSE, FALSE)
       ELSE IF Len(disk[1]) = 0
       THEN /\ UNCHANGED <<data, expire_heap, lastSet, restored>>
            /\ last' = LoadCall(TRUE, TRUE)
       ELSE IF Len(disk[1]) = 1
       THEN /\ data' = Unpickle(disk[1][1])
            /\ UNCHANGED expire_heap
            /\ last' = LoadCall(TRUE, TRUE)
            /\ lastSet' = NoSet
            /\ restored' = FALSE
       ELSE /\ data' = Unpickle(disk[1][1])
            /\ expire_heap' = Unpickle(disk[1][2])
            /\ last' = LoadCall(TRUE, FALSE)
            /\ lastSet' = IF track \in SetTracks THEN savedSet ELSE lastSet
            /\ restored' = TRUE
    /\ LoadFrame

\* set that does not wait for the lock save holds.
SnapSetUnlocked(k, v, e) == EngineSet(k, v, e)

\* The calls of the engine between the saves: save holds the lock from its
\* first line to its last, and the body of every other call waits for it.
SnapSet(k, v, e) == Idle /\ EngineSet(k, v, e)

SnapGet(k) == Idle /\ EngineGet(k)

SnapTtl(k) == Idle /\ EngineTtl(k)

SnapSweep == Idle /\ ProactiveExpire

\* The process ends between two calls.
SnapRestart == Idle /\ Restart

\* load as main calls it: into the engine just made.
FreshLoad == data = EmptyDict /\ expire_heap = <<>> /\ EngineLoad

----------------------------------------------------------------------------
(* The protocol.  A line is the sequence of its tokens as data.strip().split() *)
(* gives them, a token the sequence of its characters.  handle_client reads a  *)
(* line (Receive), then parse (CacheEngine) or the if-chain of handle_client   *)
(* (PyRedisLite) checks it and makes the call; the reply is composed from the  *)
(* line and from what the call returned.                                       *)

Lower == <<"a", "b", "c", "d", "e", "f", "g", "h", "i", "j", "k", "l", "m",
           "n", "o", "p", "q", "r", "s", "t", "u", "v", "w", "x", "y", "z">>

Upper == <<"A", "B", "C", "D", "E", "F", "G", "H", "I", "J", "K", "L", "M",
           "N", "O", "P", "Q", "R", "S", "T", "U", "V", "W", "X", "Y", "Z">>

\* str.upper() of one character and of a token.
UpperChar(c) ==
    IF \E i \in 1..26 : Lower[i] = c
    THEN Upper[CHOOSE i \in 1..26 : Lower[i] = c]
    ELSE c

\* The token as it was sent, in place of tok.upper().
AsSent(tok) == tok

ToUpper(tok) == [i \in 1..Len(tok) |-> UpperChar(tok[i])]

\* The command names a client sends, two of them in lower case and one in
\* mixed case.
Names == { <<"S", "E", "T">>, <<"G", "E", "T">>, <<"D", "E", "L">>,
           <<"T", "T", "L">>, <<"I", "N", "C", "R">>, <<"D", "E", "C", "R">>,
           <<"S", "A", "V", "E">>, <<"I", "N", "F", "O">>,
           <<"E", "X", "I", "S", "T", "S">>,
           <<"F", "L", "U", "S", "H", "A", "L", "L">>,
           <<"P", "I", "N", "G">>, <<"p", "i", "n", "g">>, <<"g", "e", "t">>,
           <<"S", "e", "t">> }

\* The arguments a client sends after the name.
ArgLists == { <<>>,
              << <<"a">> >>,
              << <<"a">>, <<"x">> >>,
              << <<"a">>, <<"x">>, <<"E", "X">> >>,
              << <<"a">>, <<"x">>, <<"E", "X">>, <<"1">> >>,
              << <<"a">>, <<"x">>, <<"E", "X">>, <<"0">> >>,
              << <<"a">>, <<"x">>, <<"P", "X">>, <<"1">> >>,
              << <<"a">>, <<"x">>, <<"e", "x">>, <<"z">> >> }

Lines == {<<>>} \cup {<<n>> \o args : n \in Names, args \in ArgLists}

\* A key of the store is the token as it stands; the keys of the model are
\* tokens of one character.
KeyOf(tok) == tok[1]

\* What parse decides for a line: kind "reply" with the reply it returns
\* without a call, or the call it makes.  A reply is head, arg, "\r\n".
Reject(head, arg) ==
    [kind |-> "reply", head |-> head, arg |-> arg, key |-> "", value |-> <<>>,
     expire |-> None]

Invoke(kind, key, value, expire) ==
    [kind |-> kind, head |-> "", arg |-> <<>>, key |-> key, value |-> value,
     expire |-> expire]

\* parse with `if len(args) < 1` for the commands of one argument.
DispatchLoose(parts) ==
    IF Len(parts) = 0 THEN Reject("ERROR: No command specified", <<>>)
    ELSE
    LET command == ToUpper(parts[1])
        args == Tail(parts)
        One(kind, name) ==
            IF Len(args) < 1
            THEN Reject("ERROR: Incorrect number of arguments for ", name)
            ELSE Invoke(kind, KeyOf(args[1]), <<>>, None)
    IN  IF command = <<"S", "E", "T">>
        THEN IF Len(args) < 2 THEN Reject("ERROR: Not enough arguments for SET", <<>>)
             ELSE IF Len(args) > 3 /\ ToUpper(args[3]) = <<"E", "X">>
             THEN IF IsIntStr(args[4])
                  THEN Invoke("set", KeyOf(args[1]), args[2], <<ParseInt(args[4])>>)
                  ELSE Reject("ERROR: Invalid expire value", <<>>)
             ELSE Invoke("set", KeyOf(args[1]), args[2], None)
        ELSE IF command = <<"G", "E", "T">> THEN One("get", command)
        ELSE IF command = <<"D", "E", "L">> THEN One("delete", command)
        ELSE IF command = <<"T", "T", "L">> THEN One("ttl", command)
        ELSE IF command = <<"I", "N", "C", "R">> THEN One("incr", command)
        ELSE IF command = <<"D", "E", "C", "R">> THEN One("decr", command)
        ELSE IF command = <<"S", "A", "V", "E">> THEN Invoke("save", "", <<>>, None)
        ELSE IF command = <<"I", "N", "F", "O">> THEN Invoke("info", "", <<>>, None)
        ELSE Reject("ERROR: Unknown command '", command)

\* parse that refuses a SET whose trailing tokens are not EX <seconds>.
DispatchStrict(parts) ==
    IF Len(parts) = 0 THEN Reject("ERROR: No command specified", <<>>)
    ELSE
    LET command == ToUpper(parts[1])
        args == Tail(parts)
        One(kind, name) ==
            IF Len(args) # 1
            THEN Reject("ERROR: Incorrect number of arguments for ", name)
            ELSE Invoke(kind, KeyOf(args[1]), <<>>, None)
    IN  IF command = <<"S", "E", "T">>
        THEN IF Len(args) < 2 THEN Reject("ERROR: Not enough arguments for SET", <<>>)
             ELSE IF Len(args) > 3 /\ ToUpper(args[3]) = <<"E", "X">>
             THEN IF IsIntStr(args[4])
                  THEN Invoke("set", KeyOf(args[1]), args[2], <<ParseInt(args[4])>>)
                  ELSE Reject("ERROR: Invalid expire value", <<>>)
             ELSE IF Len(args) > 2 THEN Reject("ERROR: Invalid expire value", <<>>)
             ELSE Invoke("set", KeyOf(args[1]), args[2], None)
        ELSE IF command = <<"G", "E", "T">> THEN One("get", command)
        ELSE IF command = <<"D", "E", "L">> THEN One("delete", command)
        ELSE IF command = <<"T", "T", "L">> THEN One("ttl", command)
        ELSE IF command = <<"I", "N", "C", "R">> THEN One("incr", command)
        ELSE IF command = <<"D", "E", "C", "R">> THEN One("decr", command)
        ELSE IF command = <<"S", "A", "V", "E">> THEN Invoke("save", "", <<>>, None)
        ELSE IF command = <<"I", "N", "F", "O">> THEN Invoke("info", "", <<>>, None)
        ELSE Reject("ERROR: Unknown command '", command)

Dispatch(parts) ==
    IF Len(parts) = 0 THEN Reject("ERROR: No command specified", <<>>)
    ELSE
    LET command == ToUpper(parts[1])
        args == Tail(parts)
        One(kind, name) ==
            IF Len(args) # 1
            THEN Reject("ERROR: Incorrect number of arguments for ", name)
            ELSE Invoke(kind, KeyOf(args[1]), <<>>, None)
    IN  IF command = <<"S", "E", "T">>
        THEN IF Len(args) < 2 THEN Reject("ERROR: Not enough arguments for SET", <<>>)
             ELSE IF Len(args) > 3 /\ ToUpper(args[3]) = <<"E", "X">>
             THEN IF IsIntStr(args[4])
                  THEN Invoke("set", KeyOf(args[1]), args[2], <<ParseInt(args[4])>>)
                  ELSE Reject("ERROR: Invalid expire value", <<>>)
             ELSE Invoke("set", KeyOf(args[1]), args[2], None)
        ELSE IF command = <<"G", "E", "T">> THEN One("get", command)
        ELSE IF command = <<"D", "E", "L">> THEN One("delete", command)
        ELSE IF command = <<"T", "T", "L">> THEN One("ttl", command)
        ELSE IF command = <<"I", "N", "C", "R">> THEN One("incr", command)
        ELSE IF command = <<"D", "E", "C", "R">> THEN One("decr", command)
        ELSE IF command = <<"S", "A", "V", "E">> THEN Invoke("save", "", <<>>, None)
        ELSE IF command = <<"I", "N", "F", "O">> THEN Invoke("info", "", <<>>, None)
        ELSE Reject("ERROR: Unknown command '", command)

\* What the if-chain of the threaded handle_client decides for a line; its
\* one reply without a call has no argument.
LiteDispatch(parts) ==
    LET cmd == ToUpper(parts[1])
        args == Tail(parts)
        One(kind) == Invoke(kind, KeyOf(args[1]), <<>>, None)
    IN  IF cmd = <<"S", "E", "T">> /\ Len(args) = 2
        THEN Invoke("set", KeyOf(args[1]), args[2], None)
        ELSE IF cmd = <<"S", "E", "T">> /\ Len(args) = 4
                /\ ToUpper(args[3]) = <<"E", "X">>
        THEN Invoke("set", KeyOf(args[1]), args[2], args[4])
        ELSE IF cmd = <<"G", "E", "T">> /\ Len(args) = 1 THEN One("get")
        ELSE IF cmd = <<"D", "E", "L">> /\ Len(args) = 1 THEN One("delete")
        ELSE IF cmd = <<"E", "X", "I", "S", "T", "S">> /\ Len(args) = 1
        THEN One("exists")
        ELSE IF cmd = <<"T", "T", "L">> /\ Len(args) = 1 THEN One("ttl")
        ELSE IF cmd = <<"I", "N", "C", "R">> /\ Len(args) = 1 THEN One("incr")
        ELSE IF cmd = <<"F", "L", "U", "S", "H", "A", "L", "L">> /\ Len(args) = 0
        THEN Invoke("flushall", "", <<>>, None)
        ELSE Reject("ERROR: Unknown command or wrong number of arguments", <<>>)

\* data = await reader.read(1024) / client_socket.recv(1024): a line arrives.
\* The threaded handler leaves its loop on an empty line.
Receive(parts) ==
    /\ Idle
    /\ impl = "lite" => Len(parts) > 0
    /\ request' = <<parts>>
    /\ last' = NoCall /\ prev' = NoPrev /\ recent' = NoPrev
    /\ UNCHANGED <<impl, track, watch, snapshot, clients, now, data, expire_heap,
                   expirations, taskWake, lastSet, delClean, restored>>

\* parse or handle_client returns a reply without a call.
Rejected ==
    /\ UNCHANGED <<impl, track, watch, request, snapshot, clients, now, data,
                   expire_heap, expirations, taskWake, lastSet, delClean, restored>>
    /\ last' = Noted(Call("reject", "", FALSE, <<>>, 0, FALSE),
                     data # EmptyDict, <<>>,
                     /\ data' = data
                     /\ expire_heap' = expire_heap
                     /\ expirations' = expirations)
    /\ prev' = NoPrev /\ recent' = NoPrev

\* save as the one step it is when nothing fails.
EngineSave ==
    /\ Idle
    /\ impl = "async"
    /\ disk' = <<Snapshot(data, expire_heap)>>
    /\ tmp' = NoFile
    /\ saved' = <<data, expire_heap>>
    /\ savedSet' = lastSet
    /\ last' = SaveCall(FALSE) /\ prev' = NoPrev /\ recent' = NoPrev
    /\ UNCHANGED <<engine, savePc, periodic>>

\* len(str(k)) + len(str(v)) over the items; a key of the model is one
\* character long.
RECURSIVE MemoryUsage(_, _)
MemoryUsage(d, ks) ==
    IF Len(ks) = 0 THEN 0
    ELSE 1 + Len(d[ks[1]]) + MemoryUsage(d, Tail(ks))

\* info with a memory_usage that leaves out len(str(k)).
EngineInfoValuesOnly ==
    /\ impl = "async"
    /\ UNCHANGED <<impl, track, watch, request, snapshot, clients, now, data,
                   expire_heap, expirations, taskWake, lastSet, delClean, restored>>
    /\ last' = Noted(Call("info", "", TRUE,
                          IntToStr(MemoryUsage(data, SortedKeys(DOMAIN data))
                                   - Cardinality(DOMAIN data)),
                          Cardinality(DOMAIN data), FALSE),
                     data # EmptyDict, <<>>,
                     /\ data' = data
                     /\ expire_heap' = expire_heap
                     /\ expirations' = expirations)
    /\ prev' = NoPrev /\ recent' = NoPrev

\* info: num is "keys", val is "memory_usage" as str() writes it.
EngineInfo ==
    /\ impl = "async"
    /\ UNCHANGED <<impl, track, watch, request, snapshot, clients, now, data,
                   expire_heap, expirations, taskWake, lastSet, delClean, restored>>
    /\ last' = Noted(Call("info", "", TRUE,
                          IntToStr(MemoryUsage(data, SortedKeys(DOMAIN data))),
                          Cardinality(DOMAIN data), FALSE),
                     data # EmptyDict, <<>>,
                     /\ data' = data
                     /\ expire_heap' = expire_heap
                     /\ expirations' = expirations)
    /\ prev' = NoPrev /\ recent' = NoPrev

\* CommandParser.parse of the line read last.
ParseRequest ==
    /\ impl = "async"
    /\ request # <<>>
    /\ Idle
    /\ LET d == Dispatch(request[1])
       IN  \/ d.kind = "reply" /\ Rejected
           \/ d.kind = "set" /\ EngineSet(d.key, d.value, d.expire)
           \/ d.kind = "get" /\ EngineGet(d.key)
           \/ d.kind = "delete" /\ EngineDelete(d.key)
           \/ d.kind = "ttl" /\ EngineTtl(d.key)
           \/ d.kind = "incr" /\ EngineIncr(d.key)
           \/ d.kind = "decr" /\ EngineDecr(d.key)
           \/ d.kind = "save" /\ EngineSave
           \/ d.kind = "info" /\ EngineInfo

\* The body of the loop of the threaded handle_client for the line read last.
LiteHandle ==
    /\ impl = "lite"
    /\ request # <<>>
    /\ LET d == LiteDispatch(request[1])
       IN  \/ d.kind = "reply" /\ Rejected
           \/ d.kind = "set" /\ LiteSet(d.key, d.value, d.expire)
           \/ d.kind = "get" /\ LiteGet(d.key)
           \/ d.kind = "delete" /\ LiteDelete(d.key)
           \/ d.kind = "exists" /\ LiteExists(d.key)
           \/ d.kind = "ttl" /\ LiteTtl(d.key)
           \/ d.kind = "incr" /\ LiteIncr(d.key)
           \/ d.kind = "flushall" /\ LiteFlushall

\* A call has been made or refused for the line in request.
Served == last.op \notin {"init", "sweep", "other"}

\* The reply to the line in request, without its terminator: head and arg
\* (of the reply to INFO, its first line).  parse turns every exception into
\* ERROR: <message>.
ReplyHead ==
    IF last.op = "reject"
    THEN (IF impl = "async" THEN Dispatch(request[1]).head
          ELSE LiteDispatch(request[1]).head)
    ELSE IF last.err THEN "ERROR: "
    ELSE IF last.op \in {"set", "save", "flushall"} THEN "OK"
    ELSE IF last.op = "get" THEN (IF last.found THEN "" ELSE "(nil)")
    ELSE IF last.op = "info" THEN "keys:"
    ELSE IF impl = "async" /\ last.op \in {"delete", "ttl", "incr", "decr"} THEN ":"
    ELSE ""

ReplyArg ==
    IF last.op = "reject"
    THEN (IF impl = "async" THEN Dispatch(request[1]).arg
          ELSE LiteDispatch(request[1]).arg)
    ELSE IF last.err \/ last.op \in {"set", "save", "flushall"} THEN <<>>
    ELSE IF last.op = "get" THEN last.val
    ELSE IF impl = "async" /\ last.op \in {"delete", "ttl", "incr", "decr", "info"}
    THEN IntToStr(last.num)
    ELSE last.val

----------------------------------------------------------------------------
(* One connection.  The handler reads what has arrived, up to 1024 bytes, as  *)
(* one message: the lines a client sent since the last read come in one       *)
(* chunk.  It serves the message and writes the reply before it reads again.  *)

\* The command lines a client sends over the connection.
CmdLines == { << <<"S", "E", "T">>, <<"a">>, <<"x">> >>,
              << <<"G", "E", "T">>, <<"a">> >>,
              << <<"I", "N", "C", "R">>, <<"a">> >>,
              << <<"S", "E", "T">>, <<"a">>, <<"x">>, <<"e", "x">>, <<"z">> >>,
              << <<"P", "I", "N", "G">> >> }

\* What one read returns: one line, or two that were sent one after the other.
Chunks == {<<l>> : l \in CmdLines} \cup {<<l, m>> : l, m \in CmdLines}

\* data.strip().split() / command.split(): the tokens of the chunk, the line
\* ends being white space as the blanks are.
RECURSIVE SplitChunk(_)
SplitChunk(chunk) ==
    IF Len(chunk) = 0 THEN <<>> ELSE chunk[1] \o SplitChunk(Tail(chunk))

\* await reader.read(1024) / recv(1024), decode and split.
ReadChunk(chunk) ==
    /\ conn.open /\ ~conn.pending
    /\ conn.sent + Len(chunk) <= MaxSent
    /\ request' = <<SplitChunk(chunk)>>
    /\ conn' = [conn EXCEPT !.sent = @ + Len(chunk), !.pending = TRUE]
    /\ last' = NoCall /\ prev' = NoPrev /\ recent' = NoPrev
    /\ UNCHANGED <<impl, track, watch, snapshot, lock, tasks, now, data,
                   expire_heap, expirations, taskWake, lastSet, delClean,
                   restored>>

\* The message read is parsed and its call made.
ServeChunk ==
    /\ conn.pending
    /\ last.op = "init"
    /\ (ParseRequest \/ LiteHandle)

\* The call raised: CacheEngine.incr and decr raise ValueError, PyRedisLite.set
\* raises it from int(ex); PyRedisLite.incr returns its error as a string.
Raised == last.err /\ ~(impl = "lite" /\ last.op = "incr")

\* What ends every reply.
ReplyEnd == IF impl = "async" THEN "\r\n" ELSE "\n"

\* writer.write(response.encode()) and drain / client_socket.sendall: one
\* reply for the message.  The threaded handler leaves its loop after the
\* reply to an exception and closes the socket.
WriteReply ==
    /\ conn.pending
    /\ last.op # "init"
    /\ conn' = [conn EXCEPT !.replies = @ + 1, !.pending = FALSE,
                            !.open = ~(impl = "lite" /\ Raised)]
    /\ UNCHANGED <<impl, track, watch, request, snapshot, lock, tasks, now, data,
                   expire_heap, expirations, taskWake, last, prev, recent,
                   lastSet, delClean, restored>>

----------------------------------------------------------------------------
(* Concurrent incr calls on the key watch.  A call takes the lock, reads,     *)
(* writes and returns; here the three are steps of their own, so that it is    *)
(* the lock, and not the grain of the model, that keeps the calls apart.       *)

TaskAt(i, pc, cur, ret) == [tasks EXCEPT ![i] = [pc |-> pc, cur |-> cur, ret |-> ret]]

\* What the steps of an incr call leave alone.
history == <<last, prev, recent, lastSet, delClean, restored, conn>>

\* incr without `async with self._lock` / `with self.lock`.
IncrAcquireUnlocked(i) ==
    /\ tasks[i].pc = "start"
    /\ lock' = i
    /\ tasks' = TaskAt(i, "locked", 0, 0)
    /\ UNCHANGED <<impl, track, watch, request, snapshot, now, data, expire_heap,
                   expirations, taskWake, history>>

\* `async with self._lock:` / `with self.lock:`
IncrAcquire(i) ==
    /\ tasks[i].pc = "start"
    /\ lock = Free
    /\ lock' = i
    /\ tasks' = TaskAt(i, "locked", 0, 0)
    /\ UNCHANGED <<impl, track, watch, request, snapshot, now, data, expire_heap,
                   expirations, taskWake, history>>

\* incr whose except branch leaves without releasing the lock.
IncrReadKeepsLock(i) ==
    /\ tasks[i].pc = "locked"
    /\ IF watch \in DOMAIN data /\ ~IsIntStr(data[watch])
       THEN tasks' = TaskAt(i, "failed", 0, 0)
       ELSE tasks' = TaskAt(i, "read",
                            IF watch \in DOMAIN data THEN ParseInt(data[watch])
                            ELSE 0, 0)
    /\ UNCHANGED <<impl, track, watch, request, snapshot, now, data, expire_heap,
                   expirations, taskWake, history, lock>>

\* int(self._data.get(key, 0)); PyRedisLite reads self.data[key] when the key
\* is there and takes the other branch when it is not.  A value int() does
\* not parse ends the call with the lock released.
IncrRead(i) ==
    /\ tasks[i].pc = "locked"
    /\ IF watch \in DOMAIN data /\ ~IsIntStr(data[watch])
       THEN /\ tasks' = TaskAt(i, "failed", 0, 0)
            /\ lock' = Free
       ELSE /\ tasks' = TaskAt(i, "read",
                               IF watch \in DOMAIN data THEN ParseInt(data[watch])
                               ELSE 0, 0)
            /\ UNCHANGED lock
    /\ UNCHANGED <<impl, track, watch, request, snapshot, now, data, expire_heap,
                   expirations, taskWake, history>>

\* self._data[key] = str(current_value); return current_value; the lock is
\* released on the way out.
IncrWrite(i) ==
    /\ tasks[i].pc = "read"
    /\ data' = DictSet(data, watch, IntToStr(tasks[i].cur + 1))
    /\ tasks' = TaskAt(i, "done", tasks[i].cur, tasks[i].cur + 1)
    /\ lock' = Free
    /\ UNCHANGED <<impl, track, watch, request, snapshot, now, expire_heap,
                   expirations, taskWake, history>>

\* info, a call of a task as the incr calls are: "keys": len(self._data),
\* which the task keeps in cur.  Nothing takes the lock.
InfoKeys(i) ==
    /\ impl = "async"
    /\ tasks[i].pc = "start"
    /\ tasks' = TaskAt(i, "keys", Cardinality(DOMAIN data), 0)
    /\ UNCHANGED <<impl, track, watch, request, snapshot, now, data, expire_heap,
                   expirations, taskWake, history, lock>>

\* "memory_usage": self._get_memory_usage(), and the return of the dict.
InfoMemory(i) ==
    /\ tasks[i].pc = "keys"
    /\ tasks' = TaskAt(i, "told", tasks[i].cur,
                       MemoryUsage(data, SortedKeys(DOMAIN data)))
    /\ UNCHANGED <<impl, track, watch, request, snapshot, now, data, expire_heap,
                   expirations, taskWake, history, lock>>

\* A set of another key by another client, between the steps of no call.
LockedSet(k, v, e) ==
    /\ lock = Free
    /\ k # watch
    /\ \/ EngineSet(k, v, e)
       \/ LiteSet(k, v, IF e = None THEN None ELSE IntToStr(e[1]))

\* The background task takes the lock for its sweep.
LockedSweep ==
    /\ lock = Free
    /\ (ProactiveExpire \/ LiteActiveExpire)

\* The lock of CacheEngine is held by no task and by no save.
Unlocked == lock = Free /\ Idle

\* The calls that wait for the one lock: an incr call, a set and a get of
\* the key, the sweep and save, each taking the lock when nothing holds it.
WaitAcquire(i) == Idle /\ IncrAcquire(i)

WaitSet(v) == Unlocked /\ EngineSet(watch, v, None)

WaitGet == Unlocked /\ EngineGet(watch)

WaitSweep == Unlocked /\ ProactiveExpire

WaitSave == lock = Free /\ SaveOpen

\* The steps a call takes once it holds the lock: no await stands between
\* them and the release.
InsideIncr(i) == IncrRead(i) \/ IncrWrite(i)

InsideSave == SaveDumpData \/ SaveDumpHeap \/ SaveReplace \/ SaveFail

----------------------------------------------------------------------------
(* The specification *)

Start ==
    /\ impl \in {"async", "lite"}
    /\ now = 0
    /\ data = EmptyDict
    /\ expire_heap = <<>>
    /\ expirations = EmptyDict
    /\ taskWake = Runnable
    /\ last = NoCall
    /\ prev = NoPrev
    /\ recent = NoPrev
    /\ watch \in Keys
    /\ lastSet = NoSet
    /\ delClean = "no"
    /\ restored = FALSE
    /\ request = <<>>
    /\ disk = NoFile
    /\ tmp = NoFile
    /\ savePc = "idle"
    /\ saved = <<>>
    /\ savedSet = NoSet
    /\ periodic = "idle"
    /\ lock = Free
    /\ tasks = NoTasks
    /\ conn = NoConn

Next ==
    \/ Tick
    \/ \E k \in Keys, v \in Values, e \in Expires : EngineSet(k, v, e)
    \/ \E k \in Keys : EngineGet(k)
    \/ \E k \in Keys : EngineDelete(k)
    \/ \E k \in Keys : EngineTtl(k)
    \/ \E k \in Keys : EngineIncr(k)
    \/ \E k \in Keys : EngineDecr(k)
    \/ ProactiveExpire
    \/ \E k \in Keys, v \in Values, ex \in ExTokens : LiteSet(k, v, ex)
    \/ \E k \in Keys : LiteGet(k)
    \/ \E k \in Keys : LiteDelete(k)
    \/ \E k \in Keys : LiteExists(k)
    \/ \E k \in Keys : LiteTtl(k)
    \/ \E k \in Keys : LiteIncr(k)
    \/ LiteFlushall
    \/ LiteActiveExpire

Init == Start /\ track = "calls"

InitSets == Start /\ track = "sets"

InitDels == Start /\ track = "dels"

\* The runs of set, get, delete, ttl and the sweeps.
NextExpiry ==
    \/ Tick
    \/ \E k \in Keys, v \in Values, e \in Expires : EngineSet(k, v, e)
    \/ \E k \in Keys : EngineGet(k)
    \/ \E k \in Keys : EngineDelete(k)
    \/ \E k \in Keys : EngineTtl(k)
    \/ ProactiveExpire
    \/ \E k \in Keys, v \in Values, ex \in ExTokens : LiteSet(k, v, ex)
    \/ \E k \in Keys : LiteGet(k)
    \/ \E k \in Keys : LiteDelete(k)
    \/ \E k \in Keys : LiteTtl(k)
    \/ LiteActiveExpire

Spec == Init /\ [][Next]_vars

SpecSets == InitSets /\ [][NextExpiry]_vars

SpecDels == InitDels /\ [][NextExpiry]_vars

\* The runs of save, restart and load between sets, with no save that fails.
InitSnap == Init /\ impl = "async" /\ watch = "a"

NextSnap ==
    \/ Tick
    \/ \E k \in Keys, v \in Values, e \in Expires : SnapSet(k, v, e)
    \/ SaveOpen
    \/ SaveDumpData
    \/ SaveDumpHeap
    \/ SaveReplace
    \/ SnapRestart
    \/ EngineLoad

SpecSnap == InitSnap /\ [][NextSnap]_vars

\* The runs in which save fails and the process ends at any step.
NextCrash ==
    \/ \E k \in Keys, e \in {None, <<1>>} : SnapSet(k, <<"x">>, e)
    \/ SaveOpen
    \/ SaveDumpData
    \/ SaveDumpHeap
    \/ SaveReplace
    \/ SaveFail
    \/ Restart
    \/ EngineLoad

SpecCrash == InitSnap /\ [][NextCrash]_vars

\* The runs of the two callers of save, the SAVE command and periodic_save,
\* between sets.
NextSaves ==
    \/ \E k \in Keys, v \in Values, e \in {None, <<1>>} : SnapSet(k, v, e)
    \/ SaveOpen
    \/ SaveDumpData
    \/ SaveDumpHeap
    \/ SaveReplace
    \/ PeriodicOpen
    \/ PeriodicDumpData
    \/ PeriodicDumpHeap
    \/ PeriodicReplace
    \/ SnapSweep

SpecSaves == InitSnap /\ [][NextSaves]_vars

\* The runs of save, restart and load with set, get, ttl and the sweep, which
\* keep the latest set of watch.
InitGap == InitSets /\ impl = "async" /\ watch = "a"

NextGap ==
    \/ Tick
    \/ \E e \in Expires : SnapSet(watch, <<"x">>, e)
    \/ SnapGet(watch)
    \/ SnapTtl(watch)
    \/ SnapSweep
    \/ SaveOpen
    \/ SaveDumpData
    \/ SaveDumpHeap
    \/ SaveReplace
    \/ SnapRestart
    \/ FreshLoad

SpecGap == InitGap /\ [][NextGap]_vars

\* The runs of one connection: lines arrive and are served.
InitParse == Init /\ watch = "a"

NextParse ==
    \/ Tick
    \/ \E parts \in Lines : Receive(parts)
    \/ ParseRequest
    \/ LiteHandle

SpecParse == InitParse /\ [][NextParse]_vars

\* The runs of the calls of PyRedisLite.
InitLite == Init /\ impl = "lite" /\ watch = "a"

NextLite ==
    \/ Tick
    \/ \E k \in Keys, v \in Values, ex \in ExTokens : LiteSet(k, v, ex)
    \/ \E k \in Keys : LiteGet(k)
    \/ \E k \in Keys : LiteDelete(k)
    \/ \E k \in Keys : LiteExists(k)
    \/ \E k \in Keys : LiteTtl(k)
    \/ \E k \in Keys : LiteIncr(k)
    \/ LiteFlushall
    \/ LiteActiveExpire

SpecLite == InitLite /\ [][NextLite]_vars

\* The runs of incr and decr between sets, as time passes.
InitAdds == Init /\ watch = "a"

NextAdds ==
    \/ Tick
    \/ \E k \in Keys, v \in Values, e \in Expires : EngineSet(k, v, e)
    \/ \E k \in Keys : EngineIncr(k)
    \/ \E k \in Keys : EngineDecr(k)
    \/ \E k \in Keys, v \in Values, ex \in ExTokens : LiteSet(k, v, ex)
    \/ \E k \in Keys : LiteIncr(k)

SpecAdds == InitAdds /\ [][NextAdds]_vars

\* The runs that change the heap: set, get, delete, the sweep, save and load.
NextHeap ==
    \/ Tick
    \/ \E k \in Keys, e \in Expires : EngineSet(k, <<"x">>, e)
    \/ \E k \in Keys : EngineGet(k)
    \/ \E k \in Keys : EngineDelete(k)
    \/ ProactiveExpire
    \/ EngineSave
    \/ EngineLoad

SpecHeap == InitSnap /\ [][NextHeap]_vars

\* The runs of info between set, delete, incr and decr.
InitInfo == Init /\ impl = "async" /\ watch = "a"

NextInfo ==
    \/ \E k \in Keys, v \in Values, e \in {None, <<1>>} : EngineSet(k, v, e)
    \/ \E k \in Keys : EngineDelete(k)
    \/ \E k \in Keys : EngineIncr(k)
    \/ \E k \in Keys : EngineDecr(k)
    \/ EngineInfo

SpecInfo == InitInfo /\ [][NextInfo]_vars

\* The runs of the background task with sets and no reads.
InitStale == Start /\ track = "sweeps" /\ watch = "a"

NextStale ==
    \/ PromptTick
    \/ \E k \in Keys, e \in StaleTtls : FirstSet(k, e)
    \/ ProactiveExpire
    \/ LiteActiveExpire

SpecStale == InitStale /\ [][NextStale]_vars

\* The same runs with a task that is scheduled and a time that moves on.
SpecStaleFair ==
    /\ SpecStale
    /\ WF_vars(PromptTick)
    /\ WF_vars(ProactiveExpire)
    /\ WF_vars(LiteActiveExpire)

\* The runs of one connection with its reads and its replies.
NextConn ==
    \/ \E chunk \in Chunks : ReadChunk(chunk)
    \/ ServeChunk
    \/ WriteReply

SpecConn == InitParse /\ [][NextConn]_vars

\* The runs of concurrent incr calls.
InitIncr == Start /\ track = "calls"

NextIncr ==
    \/ Tick
    \/ \E i \in Tasks : IncrAcquire(i)
    \/ \E i \in Tasks : IncrRead(i)
    \/ \E i \in Tasks : IncrWrite(i)
    \/ \E k \in Keys, v \in Values, e \in Expires : LockedSet(k, v, e)
    \/ LockedSweep

SpecIncr == InitIncr /\ [][NextIncr]_vars

\* The runs of concurrent incr and info calls.
NextLock ==
    \/ \E i \in Tasks : IncrAcquire(i)
    \/ \E i \in Tasks : IncrRead(i)
    \/ \E i \in Tasks : IncrWrite(i)
    \/ \E i \in Tasks : InfoKeys(i)
    \/ \E i \in Tasks : InfoMemory(i)
    \/ \E k \in Keys, v \in Values, e \in Expires : LockedSet(k, v, e)
    \/ LockedSweep

SpecLock == InitIncr /\ [][NextLock]_vars

\* The runs of the calls that take the lock, with an incr and a save that
\* fail.
InitWait == InitIncr /\ impl = "async" /\ watch = "a"

NextWait ==
    \/ Tick
    \/ \E i \in Tasks : WaitAcquire(i)
    \/ \E i \in Tasks : InsideIncr(i)
    \/ \E v \in Values : WaitSet(v)
    \/ WaitGet
    \/ WaitSweep
    \/ WaitSave
    \/ InsideSave

SpecWait == InitWait /\ [][NextWait]_vars

\* The same runs when a call that holds the lock goes on to its end and
\* asyncio.Lock, which wakes its waiters in the order they came, lets every
\* waiting call in.
SpecWaitFair ==
    /\ SpecWait
    /\ \A i \in Tasks : WF_vars(InsideIncr(i))
    /\ WF_vars(InsideSave)
    /\ \A i \in Tasks : SF_vars(WaitAcquire(i))

----------------------------------------------------------------------------
(* Properties.  They are stated of the key watch, which Init draws from Keys. *)

\* The decimal numerals, written out: the value s holds the integer n.
Numerals == [n \in -3..3 |->
    IF n = -3 THEN <<"-", "3">> ELSE IF n = -2 THEN <<"-", "2">>
    ELSE IF n = -1 THEN <<"-", "1">> ELSE IF n = 0 THEN <<"0">>
    ELSE IF n = 1 THEN <<"1">> ELSE IF n = 2 THEN <<"2">> ELSE <<"3">>]

Holds(s, n) == s = Numerals[n] \/ (n = 0 /\ s = <<"0", "0">>)

\* The time at which the latest set of watch says the key expires.
Exp == lastSet.at + lastSet.ex[1] * TicksPerSec

HasTtl == lastSet.has /\ lastSet.ex # None

NoTtl == lastSet.has /\ lastSet.ex = None

\* C1: in CacheEngine, a get(k) after set(k, v) without TTL, with no call
\* writing k between the two, returns v.
C1_SetThenGet ==
    (impl = "async" /\ last.op = "get" /\ NoTtl)
        => (last.found /\ last.val = lastSet.val)

\* C2: after set(k, v1, ttl=t) and then set(k, v2) without TTL, the key stays
\* in the store whatever time passes and ttl(k) returns -1.
C2_SetClearsExpiry ==
    (NoTtl /\ lastSet.pex # None)
        => /\ watch \in DOMAIN data
           /\ last.op = "ttl" => last.num = -1

\* C3: after set(k, v1, ttl=a) and then set(k, v2, ttl=b) with b > a, the key
\* stays in the store with the value v2 until the expiry time of the second set.
C3_RecordRemovesOwnEntry ==
    (HasTtl /\ lastSet.pex # None /\ lastSet.ex[1] > lastSet.pex[1] /\ now < Exp)
        => (watch \in DOMAIN data /\ data[watch] = lastSet.val)

\* C4: a get(k) issued after the expiry time of a key set with ttl t returns
\* not-found, whether the background task has run or not.
C4_GetAfterExpiry ==
    (last.op = "get" /\ HasTtl /\ now > Exp) => ~last.found

\* C5: ttl(k) returns -2 for a key whose expiry time has passed, collected or
\* not, and ttl never returns a number below -2.
C5_TtlAfterExpiry ==
    last.op = "ttl" =>
        /\ (HasTtl /\ now > Exp) => last.num = -2
        /\ last.num >= -2

\* C6: ttl(k) returns -2 for a key not in the store and -1 for a key in the
\* store that was set without a TTL.
C6_TtlAbsentOrNoExpiry ==
    last.op = "ttl" =>
        /\ ~last.had => last.num = -2
        /\ (last.had /\ NoTtl) => last.num = -1

\* C7: ttl(k) before the expiry time of a key set with ttl t >= 1 returns r
\* with 0 < r <= t.
C7_TtlInRange ==
    (last.op = "ttl" /\ HasTtl /\ lastSet.ex[1] >= 1 /\ now < Exp)
        => (0 < last.num /\ last.num <= lastSet.ex[1])

\* C9: after delete(k) and then set(k, v2) without TTL, no sweep removes the
\* key and ttl(k) returns -1: delete left no expiration record of k behind.
C9_DeleteInvalidatesRecords ==
    delClean = "set"
        => /\ watch \in DOMAIN data
           /\ last.op = "ttl" => last.num = -1

\* C8: delete(k) of a key in the store returns 1 and removes it, so that the
\* get(k) that follows it, with no other call between, returns not-found;
\* delete(k) of a key not in the store returns 0 and changes neither the data
\* nor the expiration records.
C8_DeleteThenGet ==
    impl = "async" =>
        /\ (last.op = "delete" /\ last.had)
              => (last.num = 1 /\ watch \notin DOMAIN data)
        /\ (last.op = "delete" /\ ~last.had) => (last.num = 0 /\ last.same)
        /\ (last.op = "get" /\ prev = <<"delete", 1>>) => ~last.found

\* A get that found nothing, right after a delete that returned 1.
C8_Witness ==
    /\ impl = "async"
    /\ last.op = "get" /\ last.key = watch /\ ~last.found
    /\ prev = <<"delete", 1>>

\* C10: incr(k) of a key not in the store returns 1 and stores "1", in both
\* engines; incr(k) of a key holding the integer n returns n + 1, and the
\* decr(k) that follows it, with no other call between, returns n and leaves
\* the numeral of n stored.
C10_IncrDecr ==
    /\ (last.op = "incr" /\ ~last.had)
          => /\ ~last.err
             /\ IF impl = "async" THEN last.num = 1 ELSE last.val = <<"1">>
             /\ watch \in DOMAIN data /\ data[watch] = <<"1">>
    /\ impl = "async" =>
          \A n \in (0 - MaxInt)..MaxInt :
              /\ (last.op = "incr" /\ last.had /\ Holds(last.pre, n))
                    => (last.num = n + 1 /\ ~last.err)
              /\ (last.op = "decr" /\ prev = <<"incr", n + 1>>)
                    => /\ last.num = n /\ ~last.err
                       /\ watch \in DOMAIN data /\ data[watch] = Numerals[n]

\* A decr that returned n right after an incr that returned n + 1.
C10_Witness ==
    /\ impl = "async"
    /\ last.op = "decr" /\ last.key = watch /\ ~last.err
    /\ prev = <<"incr", last.num + 1>>
    /\ data[watch] = Numerals[last.num]
    /\ last.pre = Numerals[last.num + 1]

\* C11: incr(k) or decr(k) of a key whose value int() does not parse fails
\* with an error (CacheEngine raises ValueError, PyRedisLite returns its error
\* string) and leaves the data and the expiration records as they were.
C11_AddFailsClean ==
    (last.op \in {"incr", "decr"} /\ last.had /\ ~IsIntStr(last.pre))
        => (last.err /\ last.same)

\* An incr or decr of a key holding "x" that failed and changed nothing.
C11_Witness ==
    /\ last.op \in {"incr", "decr"} /\ last.key = watch
    /\ last.pre = <<"x">> /\ last.err /\ last.same
    /\ data[watch] = <<"x">>

\* The values the incr calls returned.
Returned == {tasks[i].ret : i \in Tasks}

AllDone == \A i \in Tasks : tasks[i].pc = "done"

\* C12: when MaxTasks concurrent incr calls on a fresh key have returned,
\* whatever the order of their steps and of the sweeps between them, the key
\* holds MaxTasks and the calls returned 1..MaxTasks, each once.
C12_ConcurrentIncr ==
    AllDone => /\ watch \in DOMAIN data
               /\ data[watch] = IntToStr(MaxTasks)
               /\ Returned = 1..MaxTasks

\* All the incr calls have returned, and a sweep ran after one of them wrote.
C12_Witness ==
    /\ AllDone
    /\ last.op = "sweep"
    /\ data[watch] = IntToStr(MaxTasks)

\* C13: the file a save has written unpickles to the data and the expiration
\* records of the store it saved, and a load of it into a fresh CacheEngine
\* leaves that store with the same keys, values and expiration records.
C13_SaveLoadRoundTrip ==
    /\ (last.op = "save" /\ ~last.err)
          => /\ disk # NoFile /\ Len(disk[1]) = 2
             /\ Unpickle(disk[1][1]) = data
             /\ Unpickle(disk[1][2]) = expire_heap
    /\ (last.op = "load" /\ last.found /\ ~last.had)
          => /\ ~last.err
             /\ data = saved[1]
             /\ expire_heap = saved[2]

\* A load into a fresh engine of a snapshot with both keys and a record.
C13_Witness ==
    /\ last.op = "load" /\ last.found /\ ~last.had
    /\ DOMAIN data = Keys
    /\ Len(expire_heap) > 0

\* C14: after save, a lapse of time and load, ttl(k) of a key set with a TTL
\* of t >= 1 seconds returns -2 when the expiry time has passed and else r
\* with 0 <= r <= t, and get(k) returns not-found when it has passed.
C14_TtlAfterReload ==
    (restored /\ HasTtl /\ lastSet.ex[1] >= 1) =>
        /\ (last.op = "ttl" /\ now > Exp) => last.num = -2
        /\ (last.op = "ttl" /\ now <= Exp)
              => \/ 0 <= last.num /\ last.num <= lastSet.ex[1]
                 \/ last.num = -2 /\ now = Exp
        /\ (last.op = "get" /\ now > Exp) => ~last.found

\* C15: whatever step a save fails at or the process ends at, dump.rdb is
\* not there (no save has completed) or holds the two pickles of the store
\* that the last completed save wrote: the previous snapshot until the
\* replace, the new one from then on.
C15_SaveCrashSafe ==
    /\ (disk = NoFile) <=> (saved = <<>>)
    /\ disk # NoFile => disk = <<Snapshot(saved[1], saved[2])>>

\* The process ended between the two dumps of a save, with an earlier
\* snapshot of a store with keys in place.
C15_Witness ==
    /\ Idle /\ last.op = "init" /\ data = EmptyDict
    /\ tmp # NoFile /\ Len(tmp[1]) = 1
    /\ disk # NoFile /\ Len(disk[1][1].items) > 0
    /\ tmp[1][1] # disk[1][1]

\* C16: load when dump.rdb is not there raises nothing and leaves the data
\* and the expiration records as they were.
C16_LoadNoFile ==
    (last.op = "load" /\ ~last.found) => (~last.err /\ last.same)

\* A load without a file, in a store that holds keys and records.
C16_Witness ==
    /\ last.op = "load" /\ ~last.found /\ last.had /\ last.same
    /\ data # EmptyDict /\ Len(expire_heap) > 0

\* C17: after load of a snapshot the data and the expiration records are
\* those of the snapshot, and no key the store held before is left that the
\* snapshot does not hold.
C17_LoadReplaces ==
    (last.op = "load" /\ last.found) =>
        /\ ~last.err
        /\ data = saved[1]
        /\ expire_heap = saved[2]
        /\ \A i \in 1..Len(last.pre) :
              last.pre[i] \in DOMAIN data => last.pre[i] \in DOMAIN saved[1]

\* A load that removed a key and a record the store held before it.
C17_Witness ==
    /\ last.op = "load" /\ last.found /\ last.had
    /\ \E i \in 1..Len(last.pre) : last.pre[i] \notin DOMAIN data
    /\ data # EmptyDict
    /\ expire_heap = <<>>

\* The names CommandParser.parse knows, and the lines the claims are about.
Known == { <<"S", "E", "T">>, <<"G", "E", "T">>, <<"D", "E", "L">>,
           <<"T", "T", "L">>, <<"I", "N", "C", "R">>, <<"D", "E", "C", "R">>,
           <<"S", "A", "V", "E">>, <<"I", "N", "F", "O">> }

OneArg == Known \ { <<"S", "E", "T">>, <<"S", "A", "V", "E">>, <<"I", "N", "F", "O">> }

WrongArity(parts) ==
    /\ Len(parts) > 0
    /\ \/ ToUpper(parts[1]) = <<"S", "E", "T">> /\ Len(parts) - 1 < 2
       \/ ToUpper(parts[1]) \in OneArg /\ Len(parts) - 1 # 1

UnknownName(parts) == Len(parts) > 0 /\ ToUpper(parts[1]) \notin Known

BadExpire(parts) ==
    /\ Len(parts) = 5
    /\ ToUpper(parts[1]) = <<"S", "E", "T">>
    /\ ToUpper(parts[4]) = <<"E", "X">>
    /\ ~IsIntStr(parts[5])

AsyncServed == impl = "async" /\ request # <<>> /\ Served

\* C18: when CommandParser.parse has served a line that is SET with fewer
\* than two arguments, or GET, DEL, TTL, INCR or DECR with a number of arguments
\* other than one, no call was made on the engine and nothing was raised, the
\* reply is the arg-count error of that command, and the data, the heap and
\* the expiration records are as they were.
C18_WrongArityRejected ==
    (AsyncServed /\ WrongArity(request[1])) =>
        /\ last.op = "reject"
        /\ ~last.err
        /\ last.same
        /\ IF ToUpper(request[1][1]) = <<"S", "E", "T">>
           THEN ReplyHead = "ERROR: Not enough arguments for SET" /\ ReplyArg = <<>>
           ELSE /\ ReplyHead = "ERROR: Incorrect number of arguments for "
                /\ ReplyArg = ToUpper(request[1][1])

\* GET with two arguments was refused while the store held a key.
C18_Witness ==
    /\ AsyncServed
    /\ Len(request[1]) = 3
    /\ ToUpper(request[1][1]) = <<"G", "E", "T">>
    /\ last.op = "reject"
    /\ "a" \in DOMAIN data

\* C19: when CommandParser.parse has served a line whose first token is none
\* of the names it knows, the reply is ERROR: Unknown command '<name>' with
\* the first token as it was received, and the data, the heap and the
\* expiration records are as they were.
C19_UnknownEchoed ==
    (AsyncServed /\ UnknownName(request[1])) =>
        /\ last.op = "reject"
        /\ last.same
        /\ ReplyHead = "ERROR: Unknown command '"
        /\ ReplyArg = request[1][1]

\* C20: when a line SET key value EX <seconds> with a non-integer seconds
\* token has been served, by CommandParser.parse or by the threaded
\* handle_client, the reply is an error and the data, the heap and the
\* expiration records are as they were.
C20_BadExpireRejected ==
    (request # <<>> /\ Served /\ BadExpire(request[1])) =>
        /\ ReplyHead \in {"ERROR: Invalid expire value", "ERROR: "}
        /\ last.same

\* C26: while a save runs, dump.rdb.tmp holds what this save has written so
\* far and nothing else, and it is the pickle of the store as it is: no call
\* changed the data or the expiration records since the save began, and no
\* other save wrote to the file.  The file a save leaves is the snapshot of
\* one store state.
C26_SnapshotConsistent ==
    /\ (savePc = "opened" \/ periodic = "opened") => tmp = <<<<>>>>
    /\ (savePc = "data" \/ periodic = "data") => tmp = << <<PickleDict(data)>> >>
    /\ (savePc = "heap" \/ periodic = "heap")
          => tmp = <<Snapshot(data, expire_heap)>>
    /\ (Idle /\ last.op = "save" /\ ~last.err)
          => disk = <<Snapshot(data, expire_heap)>>

\* A second save has written the data of a store with keys and records and
\* not yet the records, while dump.rdb holds another store.
C26_Witness ==
    /\ periodic = "data"
    /\ data # EmptyDict /\ expire_heap # <<>>
    /\ disk # NoFile /\ disk[1][1] # PickleDict(data)

\* C28: at the instant the time equals the expiry time of a key set with a
\* TTL of t >= 1 seconds, get(k) returns not-found and a turn of the
\* background task leaves the key out of the store.
C28_ExpiredAtDeadline ==
    (HasTtl /\ lastSet.ex[1] >= 1 /\ now = Exp) =>
        /\ last.op = "get" => ~last.found
        /\ last.op = "sweep" => watch \notin DOMAIN data

\* C29: after set(k, v1, ttl=a) and then set(k, v2, ttl=b), with a, b >= 1,
\* ttl(k) up to the expiry time of the second set returns the whole seconds
\* left until that time.
C29_TtlOfLatestSet ==
    (last.op = "ttl" /\ HasTtl /\ lastSet.ex[1] >= 1
        /\ lastSet.pex # None /\ lastSet.pex[1] >= 1 /\ now <= Exp)
        => last.num = TruncSeconds(Exp - now)

\* The line is SET key value EX <seconds> with an integer seconds token.
GivesTtl(parts) ==
    /\ Len(parts) = 5
    /\ ToUpper(parts[1]) = <<"S", "E", "T">>
    /\ ToUpper(parts[4]) = <<"E", "X">>
    /\ IsIntStr(parts[5])

\* C27: when CommandParser.parse has served SET key value EX n with an
\* integer n, 0 included, and so called set(key, value, n), the heap holds
\* the expiration record (now + n, key).
C27_ZeroTtlEnqueued ==
    (AsyncServed /\ GivesTtl(request[1]) /\ last.op = "set") =>
        \E i \in 1..Len(expire_heap) :
            expire_heap[i] = <<now + ParseInt(request[1][5]) * TicksPerSec,
                               KeyOf(request[1][2])>>

\* The spellings of one command name among the names sent.
Spellings == { { <<"S", "E", "T">>, <<"S", "e", "t">> },
               { <<"G", "E", "T">>, <<"g", "e", "t">> },
               { <<"P", "I", "N", "G">>, <<"p", "i", "n", "g">> } }

\* The call a line leads to, as last names it.
OpOf(d) == IF d.kind = "reply" THEN "reject" ELSE d.kind

\* C30: when a line has been served whose name has several spellings, the
\* call that was made, its key, the value a set stored and the reply of a
\* refusal are those of the same line under each of the spellings, in
\* CommandParser.parse and in the threaded handle_client.
C30_NameCaseInsensitive ==
    (request # <<>> /\ Len(request[1]) > 0 /\ Served) =>
        \A S \in Spellings : \A n \in S :
            request[1][1] \in S =>
                LET line == <<n>> \o Tail(request[1])
                    d == IF impl = "async" THEN Dispatch(line)
                         ELSE LiteDispatch(line)
                IN  /\ last.op = OpOf(d)
                    /\ last.op = "reject"
                          => (ReplyHead = d.head /\ ReplyArg = d.arg)
                    /\ last.op # "reject" => last.key = d.key
                    /\ (last.op = "set" /\ ~last.err)
                          => data[d.key] = d.value

\* `get a` and `Set a x` have been served as GET and SET are.
C30_Witness ==
    /\ request # <<>> /\ Len(request[1]) > 0 /\ Served
    /\ \/ request[1][1] = <<"g", "e", "t">> /\ last.op = "get" /\ last.found
       \/ request[1][1] = <<"S", "e", "t">> /\ last.op = "set"

\* The positions of a call at which it reads or writes the data.
InBody == {"locked", "read", "keys"}

\* C25: a task that is between the first and the last access of its call to
\* the data or the expiration records holds the lock.
C25_LockHeld == \A i \in Tasks : tasks[i].pc \in InBody => lock = i

\* C21: when the asyncio handler has answered all it has read, it has written
\* as many replies as the client has sent commands, each ended by \r\n.
C21_OneReplyEach ==
    (impl = "async" /\ ~conn.pending) =>
        /\ conn.replies = conn.sent
        /\ conn.replies > 0 => ReplyEnd = "\r\n"

\* C22: when a call has raised and the reply has been written, the reply is
\* ERROR: <message> and the connection is open, in the asyncio handler and in
\* the threaded one.
C22_ErrorKeepsConnection ==
    (conn.replies > 0 /\ ~conn.pending /\ Raised) =>
        /\ ReplyHead = "ERROR: "
        /\ conn.open

\* C23: with no reads, no entry is in the store more than one second after
\* its expiry time, whatever the order of the sets and the sleeps of the
\* background task.
C23_BoundedStaleness ==
    /\ impl = "async" =>
          \A i \in 1..Len(expire_heap) :
              ~(/\ expire_heap[i][2] \in DOMAIN data
                /\ now > expire_heap[i][1] + TicksPerSec)
    /\ impl = "lite" =>
          \A k \in DOMAIN expirations :
              ~(k \in DOMAIN data /\ now > expirations[k] + TicksPerSec)

\* C24: with a background task that is scheduled and a time that moves on,
\* and with no get or ttl, every entry set with a TTL that ends before the
\* end of the run leaves the store, and every record of such a TTL leaves
\* the heap.
C24_EventuallyRemoved ==
    \A k \in Keys : \A t \in 0..(Late - 1) :
        (impl = "async" /\ HasRecord(expire_heap, k)
            /\ FirstRecord(expire_heap, k) = <<t, k>>)
          ~> (k \notin DOMAIN data /\ ~HasRecord(expire_heap, k))

\* The watched entry was set with a TTL, never read, and the task has taken
\* it and its record away.
C24_Witness ==
    /\ impl = "async" /\ HasTtl /\ Exp < Late
    /\ last.op = "sweep"
    /\ watch \notin DOMAIN data /\ ~HasRecord(expire_heap, watch)

\* len(str(k)) + len(str(v)) of the entry of k, 0 when k has none.
EntrySize(k) == IF k \in DOMAIN data THEN 1 + Len(data[k]) ELSE 0

RECURSIVE SumOf(_)
SumOf(S) ==
    IF S = {} THEN 0
    ELSE LET k == CHOOSE x \in S : TRUE IN EntrySize(k) + SumOf(S \ {k})

\* C31: info reports as keys the number of entries of the store and as
\* memory_usage the sum over the entries of the length of the key plus the
\* length of the value, and changes no key, value or expiration record.
C31_InfoReports ==
    last.op = "info" =>
        /\ last.num = Cardinality(DOMAIN data)
        /\ last.val = IntToStr(SumOf(Keys))
        /\ last.same

\* info has reported two entries whose values differ in length.
C31_Witness ==
    /\ last.op = "info" /\ last.num = 2
    /\ Len(data["a"]) # Len(data["b"])
    /\ expire_heap # <<>>

\* The key watch is in the store and its expiry time, if it has one, has not
\* passed.
Live ==
    /\ watch \in DOMAIN data
    /\ watch \in DOMAIN expirations => ~(now > expirations[watch])

\* C32: PyRedisLite.exists(k) returns "1" exactly when k is in the store and
\* its expiry time, if any, has not passed, and "0" otherwise; a key it finds
\* expired leaves both the data map and the expirations map, and a call that
\* returns "1" removes nothing.
C32_ExistsReports ==
    [][last'.op = "exists" =>
          /\ last'.val = (IF Live THEN <<"1">> ELSE <<"0">>)
          /\ Live => (data' = data /\ expirations' = expirations)
          /\ (watch \in DOMAIN data /\ ~Live) =>
                (watch \notin DOMAIN data' /\ watch \notin DOMAIN expirations')
      ]_vars

\* exists has found the key expired and removed it.
C32_Witness ==
    /\ impl = "lite"
    /\ last.op = "exists" /\ last.had /\ last.val = <<"0">>
    /\ watch \notin DOMAIN data /\ watch \notin DOMAIN expirations

\* C36: in PyRedisLite every key of the expirations map is a key of the data
\* map, in every state.
C36_NoOrphanExpiry ==
    impl = "lite" => DOMAIN expirations \subseteq DOMAIN data

\* A set has raised on its ex argument over a key that has an expiry time.
C36_Witness ==
    /\ impl = "lite"
    /\ last.op = "set" /\ last.err
    /\ watch \in DOMAIN expirations

\* C35: incr(k) and decr(k) add and remove no expiration record, so that a
\* key with a TTL keeps its expiry time, and leave the entry of every other
\* key as it was.
C35_AddChangesOnlyValue ==
    [][last'.op \in {"incr", "decr"} =>
          /\ expire_heap' = expire_heap
          /\ expirations' = expirations
          /\ \A j \in Keys \ {watch} :
                /\ j \in DOMAIN data' <=> j \in DOMAIN data
                /\ j \in DOMAIN data => data'[j] = data[j]
      ]_vars

\* A key with a TTL has been incremented or decremented while another key is
\* in the store.
C35_Witness ==
    /\ last.op \in {"incr", "decr"} /\ ~last.err /\ last.had
    /\ HasRecord(expire_heap, watch) \/ watch \in DOMAIN expirations
    /\ (Keys \ {watch}) \cap DOMAIN data # {}

\* SET key value with more tokens after the value that do not hold EX and a
\* token after it.
NoExClause(parts) ==
    /\ Len(parts) >= 4
    /\ ToUpper(parts[1]) = <<"S", "E", "T">>
    /\ ~(Len(parts) >= 5 /\ ToUpper(parts[4]) = <<"E", "X">>)

\* C37: CommandParser.parse serves SET key value followed by tokens that are
\* not a complete EX <seconds> clause by storing the value under the key,
\* pushing no expiration record and replying OK.
C37_LooseSetStores ==
    [][(impl = "async" /\ request # <<>> /\ request' = request
            /\ NoExClause(request[1]) /\ last'.op # "init") =>
          /\ last'.op = "set" /\ ~last'.err
          /\ data' = DictSet(data, KeyOf(request[1][2]), request[1][3])
          /\ expire_heap' = expire_heap
          /\ ReplyHead' = "OK" /\ ReplyArg' = <<>>
      ]_vars

\* SET a x EX, with the seconds missing, has been served.
C37_Witness ==
    /\ AsyncServed /\ last.op = "set"
    /\ Len(request[1]) = 4
    /\ ToUpper(request[1][1]) = <<"S", "E", "T">>
    /\ ToUpper(request[1][4]) = <<"E", "X">>
    /\ data[KeyOf(request[1][2])] = request[1][3]

\* The invariant of heapq: no item is smaller than its parent, so that the
\* item at position 0 is the smallest.
IsHeap(h) ==
    /\ \A i \in 2..Len(h) : ~TupleLt(h[i], h[i \div 2])
    /\ \A i \in 1..Len(h) : h[1][1] <= h[i][1]

C33_RemovedOnlyByRecord ==
    (impl = "async" /\ delClean = "set" /\ last.op \in {"get", "ttl", "sweep"})
        => watch \in DOMAIN data

\* The incr call of the task has returned or raised.
Ended(i) == tasks[i].pc \in {"done", "failed"}

\* C34: the lock of CacheEngine is held by no call that has returned or
\* raised, an incr that raised ValueError and a save that raised an I/O
\* error included; every incr call gets the lock and ends, and the lock is
\* free again and again, for the sweep and the later calls.
C34_LockReleased ==
    /\ [](\A i \in Tasks : (Ended(i) \/ tasks[i].pc = "start") => lock # i)
    /\ []((last.op = "save" /\ last.err) => savePc = "idle")
    /\ \A i \in Tasks : <>Ended(i)
    /\ []<>Unlocked

\* A save has raised, an incr has raised, another incr has returned since,
\* and the lock is free.
C34_Witness ==
    /\ last.op = "save" /\ last.err
    /\ tasks[1].pc = "failed" /\ tasks[2].pc = "done"
    /\ Unlocked

====
